---- MODULE Spec2Model ----
(***************************************************************************)
(* The scripted display-list control surface of the AVM1 MovieClip         *)
(* prototype (core/src/avm1/globals/movie_clip.rs): attachMovie,           *)
(* createEmptyMovieClip, createTextField, duplicateMovieClip,              *)
(* removeMovieClip, swapDepths, and the RemoveSprite / CloneSprite entry   *)
(* points that share their implementation with a depth bias of 0; the      *)
(* timeline, drag, load and drawing functions of the same prototype.       *)
(*                                                                         *)
(* A display object is an index into the sequence display_list; index 0    *)
(* stands for "no object" (a None parent).  Depths are i32 and every       *)
(* sum is computed with 32-bit wrapping arithmetic.                        *)
(***************************************************************************)
EXTENDS Integers, Sequences, FiniteSets, TLC

VARIABLES
    display_list,   \* per display object: parent, depth, name, kind, id
    transform,      \* per display object: matrix, color_transform
    timeline,       \* per display object: current_frame, playing
    drawing,        \* per display object: fill_style, line_style, commands
    script_object,  \* per display object: the properties scripts have set
    call,           \* the native call made last: op, this, args, depth_bias
    result,         \* what that call returned
    changed,        \* whether that call changed anything of the display objects
    drag_object,    \* context.drag_object: the drag sessions, none or one
    fetches,        \* the requests given to context.navigator.fetch
    futures         \* the load processes given to navigator.spawn_future

\* the state of the display objects
state == << display_list, transform, timeline, drawing, script_object >>

\* the drag and the loads of the player
player == << drag_object, fetches, futures >>

vars == << state, call, result, changed, player >>

---------------------------------------------------------------------------
(* Bounds of the model *)

\* display objects that can exist at once (the root and the author-placed
\* child included)
MaxClips == 3

\* fetches that can be submitted in one run
MaxLoads == 2

\* draw commands a clip can accumulate between two clears
MaxCommands == 2

---------------------------------------------------------------------------
(* Program constants *)

MaxI32 == 2147483647
MinI32 == (-2147483647) - 1

\* display_object::AVM_DEPTH_BIAS
AVM_DEPTH_BIAS == 16384
\* display_object::AVM_MAX_DEPTH, 2^31 - 16777220
AVM_MAX_DEPTH == 2130706428
\* the upper bound of the removable range
AVM_MAX_REMOVE_DEPTH == 2130706416

---------------------------------------------------------------------------
(* i32 arithmetic *)

\* a plausible slip: the sum is kept in 16 bits
wrapping_add_u16(a, b) == ((a % 65536) + (b % 65536)) % 65536

\* i32::wrapping_add, computed without leaving the 32-bit range
wrapping_add(a, b) ==
    IF b >= 0
    THEN IF a > MaxI32 - b
         THEN ((a - MaxI32) - 1) + ((b - MaxI32) - 1)
         ELSE a + b
    ELSE IF a < MinI32 - b
         THEN ((a + MaxI32) + 1) + ((b + MaxI32) + 1)
         ELSE a + b

\* i32::wrapping_sub
wrapping_sub(a, b) ==
    IF b = MinI32
    THEN wrapping_add(wrapping_add(a, MaxI32), 1)
    ELSE wrapping_add(a, -b)

---------------------------------------------------------------------------
(* Script values *)

Undefined == [type |-> "Undefined"]
\* the f64 n + wraps * 2^32 + tenths / 10; Number makes the integral ones
Number(n, wraps) == [type |-> "Number", n |-> n, wraps |-> wraps, tenths |-> 0]
\* the f64 n + tenths / 10, for n >= 0 and tenths in 1..9
Fractional(n, tenths) == [Number(n, 0) EXCEPT !.tenths = tenths]
\* f64::fract() == 0.0
fract_is_zero(v) == v.tenths = 0
String(s) == [type |-> "String", s |-> s]
\* the script object of display object c
Object(c) == [type |-> "Object", clip |-> c, throws |-> FALSE]
\* an array of len elements, none of which throws when coerced
Array(len) == [type |-> "Array", len |-> len, throws |-> FALSE]
\* an object whose valueOf / toString throws
Thrower == [type |-> "Object", clip |-> 0, throws |-> TRUE]

\* value::f64_to_wrapping_i32 on an integral f64: the value modulo 2^32
f64_to_wrapping_i32(v) == v.n

\* Value::coerce_to_i32 / coerce_to_f64 / coerce_to_string fail exactly when
\* user code run by the coercion throws
coercion_fails(v) == v.type = "Object" /\ v.throws

coerce_to_i32(v) ==
    IF v.type = "Number" THEN f64_to_wrapping_i32(v) ELSE 0

\* the decimal string of a number; the numbers that are made strings here
\* are within 32 bits
number_to_string(v) ==
    IF fract_is_zero(v)
    THEN ToString(v.n)
    ELSE ToString(v.n) \o "." \o ToString(v.tenths)

coerce_to_string(v) ==
    CASE v.type = "String" -> v.s
      [] v.type = "Undefined" -> "undefined"
      [] v.type = "Number" -> number_to_string(v)
      [] OTHER -> "[object Object]"

\* Rust's saturating `f64 as i32`
f64_as_i32(v) ==
    CASE v.type # "Number" -> 0
      [] v.wraps > 0 -> MaxI32
      [] v.wraps < 0 -> MinI32
      [] OTHER -> v.n

---------------------------------------------------------------------------
(* Results of a native call *)

Ok(v) == [kind |-> "Ok", value |-> v]
\* enum Error: the three errors of the interpreter
PrototypeRecursionLimit == [error |-> "PrototypeRecursionLimit"]
InvalidSwf(cause) == [error |-> "InvalidSwf", cause |-> cause]
ThrownValue(v) == [error |-> "ThrownValue", value |-> v]

\* a plausible slip: every error halts
is_halting_always(error) == TRUE

\* Error::is_halting
is_halting(error) ==
    CASE error.error = "PrototypeRecursionLimit" -> TRUE
      [] error.error = "InvalidSwf" -> TRUE
      [] error.error = "ThrownValue" -> FALSE

\* a propagated Error<'gc>: what the script code of a coercion threw
Err == [kind |-> "Err", value |-> Undefined, error |-> ThrownValue(Undefined)]
\* the call panicked
Panic == [kind |-> "Panic", value |-> Undefined]

---------------------------------------------------------------------------
(* The display tree *)

NoObject == 0
Root == 1

Clips == 1..Len(display_list)
MovieClips == {c \in Clips : display_list[c].kind = "MovieClip"}

\* TDisplayObject::parent().and_then(|o| o.as_movie_clip()); every parent
\* of the model is a movie clip
parent(dl, c) == dl[c].parent

children(dl, p) == {c \in 1..Len(dl) : dl[c].parent = p}

\* MovieClip::add_child_from_avm: the child takes the depth; a child that
\* held the depth is overwritten and leaves the parent
add_child_from_avm(dl, p, child, depth) ==
    [c \in 1..Len(dl) |->
        IF c = child
        THEN [dl[c] EXCEPT !.parent = p, !.depth = depth]
        ELSE IF dl[c].parent = p /\ dl[c].depth = depth
             THEN [dl[c] EXCEPT !.parent = NoObject]
             ELSE dl[c]]

\* MovieClip::remove_child_from_avm: the child leaves its parent
remove_child_from_avm(dl, p, child) ==
    [dl EXCEPT ![child].parent = NoObject]

\* MovieClip::swap_child_to_depth: the child moves to the depth, and a
\* child that held the depth takes the depth the child had
swap_child_to_depth(dl, p, child, depth) ==
    [c \in 1..Len(dl) |->
        IF c = child
        THEN [dl[c] EXCEPT !.depth = depth]
        ELSE IF dl[c].parent = p /\ dl[c].depth = depth
             THEN [dl[c] EXCEPT !.depth = dl[child].depth]
             ELSE dl[c]]

\* The library of the movie: export names and character ids it resolves
ExportNames == [sym |-> 1]
LibraryIds == {1}

instantiate_by_export_name(export_name) ==
    IF export_name \in DOMAIN ExportNames THEN ExportNames[export_name] ELSE 0

instantiate_by_id(id) ==
    IF id \in LibraryIds THEN id ELSE 0

\* A display object fresh from its constructor, not yet in any parent
NewObject(kind, id) ==
    [parent |-> NoObject, depth |-> 0, name |-> "", kind |-> kind, id |-> id]
NewTransform == [matrix |-> "identity", color_transform |-> "identity"]
\* no frame label
NoLabels == [label \in {} |-> 0]
\* the timeline of a new clip: before its first frame, playing; the frames
\* and the frame labels of its definition; requested is the frame the last
\* goto asked the timeline for, 0 when there was none
NewTimeline ==
    [current_frame |-> 0, playing |-> TRUE, total_frames |-> 1,
     frame_labels |-> NoLabels, requested |-> 0]
\* the drawing of a new clip: no fill style, no line style, no command
NewDrawing == [fill_style |-> "none", line_style |-> "none", commands |-> << >>]
NewScriptObject == {}

set_name(dl, c, name) == [dl EXCEPT ![c].name = name]

\* TDisplayObject::post_instantiation: the properties of the init object
\* are copied to the script object of the new clip
post_instantiation(so, c, init_object) ==
    IF init_object.type = "Object" /\ init_object.clip # NoObject
    THEN [so EXCEPT ![c] = @ \cup so[init_object.clip]]
    ELSE so

\* TDisplayObject::run_frame: one frame tick
run_frame(tl, c) == [tl EXCEPT ![c].current_frame = @ + 1]

\* the record of the call and of what it returned
RecordCall(op, this, args, depth_bias, r) ==
    /\ call' = [op |-> op, this |-> this, args |-> args, depth_bias |-> depth_bias]
    /\ result' = r
    /\ changed' = (state' # state)

\* the same for a native function that uses neither the drag nor the loads
\* of the context
Returns(op, this, args, depth_bias, r) ==
    /\ RecordCall(op, this, args, depth_bias, r)
    /\ UNCHANGED player

\* args.get(i), 0-based in the source and 1-based here
get(args, i) == IF i <= Len(args) THEN args[i] ELSE Undefined

NoEffect == UNCHANGED state

---------------------------------------------------------------------------
(* The native functions *)

\* a plausible slip: the upper limit is not tested
depth_out_of_range_below_only(depth) == depth < 0

\* the range check of attachMovie, duplicateMovieClip and swapDepths on a
\* biased depth
depth_out_of_range(depth) == depth < 0 \/ depth > AVM_MAX_DEPTH

\* a plausible slip: the new display object is not given its name
InsertNew_unnamed(kind, id, new_instance_name, p, depth, init_object, tick) ==
    LET new_clip == Len(display_list) + 1
        dl == Append(display_list, NewObject(kind, id))
    IN  /\ display_list' = add_child_from_avm(dl, p, new_clip, depth)
        /\ script_object' =
               post_instantiation(Append(script_object, NewScriptObject),
                                  new_clip, init_object)
        /\ timeline' = IF tick
                       THEN run_frame(Append(timeline, NewTimeline), new_clip)
                       ELSE Append(timeline, NewTimeline)
        /\ drawing' = Append(drawing, NewDrawing)

\* a new display object of the kind and character id, named, placed in the
\* parent at the depth, initialised and ticked once
InsertNew(kind, id, new_instance_name, p, depth, init_object, tick) ==
    LET new_clip == Len(display_list) + 1
        dl == set_name(Append(display_list, NewObject(kind, id)),
                       new_clip, new_instance_name)
    IN  /\ display_list' = add_child_from_avm(dl, p, new_clip, depth)
        /\ script_object' =
               post_instantiation(Append(script_object, NewScriptObject),
                                  new_clip, init_object)
        /\ timeline' = IF tick
                       THEN run_frame(Append(timeline, NewTimeline), new_clip)
                       ELSE Append(timeline, NewTimeline)
        /\ drawing' = Append(drawing, NewDrawing)

\* a plausible slip: the new clip runs its frame before it is in its parent
instantiation_steps_tick_first(display_properties) ==
    << "set_name", "run_frame", "add_child_from_avm" >>
    \o display_properties \o << "post_instantiation" >>

\* the calls attach, create_empty and duplicate make on the clip they
\* instantiated, in the order they make them; duplicate copies the display
\* properties of its source after the insertion
instantiation_steps(display_properties) ==
    << "set_name", "add_child_from_avm" >>
    \o display_properties \o << "post_instantiation", "run_frame" >>

\* the record of a call that instantiates, with the calls it made on the
\* new clip, and of what it returned
ReturnsNew(op, this, args, depth_bias, steps, r) ==
    /\ call' = [op |-> op, this |-> this, args |-> args,
                depth_bias |-> depth_bias, steps |-> steps]
    /\ result' = r
    /\ changed' = (state' # state)
    /\ UNCHANGED player

\* what a call returns when the library has no character to instantiate:
\* it logs a warning and returns undefined
unable_to_instantiate_raises == Err

unable_to_instantiate == Ok(Undefined)

attach_movie(movie_clip, args) ==
    LET ret(r) == ReturnsNew("attach_movie", movie_clip, args,
                             AVM_DEPTH_BIAS, << >>, r)
        made(r) == ReturnsNew("attach_movie", movie_clip, args,
                              AVM_DEPTH_BIAS, instantiation_steps(<< >>), r)
    IN  IF Len(args) < 3
        THEN NoEffect /\ ret(Panic)
        ELSE IF \E i \in 1..3 : coercion_fails(args[i])
        THEN NoEffect /\ ret(Err)
        ELSE
            LET export_name == coerce_to_string(args[1])
                new_instance_name == coerce_to_string(args[2])
                depth == wrapping_add(coerce_to_i32(args[3]), AVM_DEPTH_BIAS)
                init_object == IF get(args, 4).type = "Object"
                               THEN get(args, 4) ELSE Undefined
                id == instantiate_by_export_name(export_name)
            IN  IF depth_out_of_range(depth)
                THEN NoEffect /\ ret(Ok(Undefined))
                ELSE IF id # 0
                THEN /\ Len(display_list) < MaxClips
                     /\ InsertNew("MovieClip", id, new_instance_name,
                                  movie_clip, depth, init_object, TRUE)
                     /\ transform' = Append(transform, NewTransform)
                     /\ made(Ok(Object(Len(display_list) + 1)))
                ELSE NoEffect /\ ret(unable_to_instantiate)

create_empty_movie_clip(movie_clip, args) ==
    LET ret(r) == ReturnsNew("create_empty_movie_clip", movie_clip, args,
                             AVM_DEPTH_BIAS, << >>, r)
        made(r) == ReturnsNew("create_empty_movie_clip", movie_clip, args,
                              AVM_DEPTH_BIAS, instantiation_steps(<< >>), r)
    IN  IF Len(args) < 2
        THEN NoEffect /\ ret(Panic)
        ELSE IF \E i \in 1..2 : coercion_fails(args[i])
        THEN NoEffect /\ ret(Err)
        ELSE
            LET new_instance_name == coerce_to_string(args[1])
                depth == wrapping_add(coerce_to_i32(args[2]), AVM_DEPTH_BIAS)
            IN  /\ Len(display_list) < MaxClips
                /\ InsertNew("MovieClip", 0, new_instance_name,
                             movie_clip, depth, Undefined, TRUE)
                /\ transform' = Append(transform, NewTransform)
                /\ made(Ok(Object(Len(display_list) + 1)))

create_text_field(movie_clip, args, swf_version) ==
    LET ret(r) == Returns("create_text_field", movie_clip, args,
                          AVM_DEPTH_BIAS, r)
    IN  IF \E i \in 1..6 : coercion_fails(get(args, i))
        THEN NoEffect /\ ret(Err)
        ELSE
            LET instance_name == coerce_to_string(get(args, 1))
                depth == wrapping_add(f64_as_i32(get(args, 2)), AVM_DEPTH_BIAS)
            IN  /\ Len(display_list) < MaxClips
                /\ InsertNew("EditText", 0, instance_name,
                             movie_clip, depth, Undefined, FALSE)
                /\ transform' = Append(transform, NewTransform)
                /\ ret(IF swf_version >= 8
                       THEN Ok(Object(Len(display_list) + 1))
                       ELSE Ok(Undefined))

\* a plausible slip: the color transform is not copied
copy_display_properties_matrix_only(tr, movie_clip) ==
    [matrix |-> tr[movie_clip].matrix,
     color_transform |-> NewTransform.color_transform]

\* the display properties the new clip takes from the clip duplicated
copy_display_properties(tr, movie_clip) ==
    [matrix |-> tr[movie_clip].matrix,
     color_transform |-> tr[movie_clip].color_transform]

duplicate_movie_clip_with_bias(movie_clip, args, depth_bias) ==
    LET ret(r) == ReturnsNew("duplicate_movie_clip", movie_clip, args,
                             depth_bias, << >>, r)
        made(r) == ReturnsNew("duplicate_movie_clip", movie_clip, args,
                              depth_bias,
                              instantiation_steps(
                                  << "set_matrix", "set_color_transform" >>), r)
    IN  IF Len(args) < 2
        THEN NoEffect /\ ret(Panic)
        ELSE IF \E i \in 1..2 : coercion_fails(args[i])
        THEN NoEffect /\ ret(Err)
        ELSE
            LET new_instance_name == coerce_to_string(args[1])
                depth == wrapping_add(coerce_to_i32(args[2]), depth_bias)
                init_object == get(args, 3)
                p == parent(display_list, movie_clip)
                id == instantiate_by_id(display_list[movie_clip].id)
            IN  IF p = NoObject
                THEN NoEffect /\ ret(Ok(Undefined))
                ELSE IF depth_out_of_range(depth)
                THEN NoEffect /\ ret(Ok(Undefined))
                ELSE IF id # 0
                THEN /\ Len(display_list) < MaxClips
                     /\ InsertNew("MovieClip", id, new_instance_name,
                                  p, depth, init_object, TRUE)
                     /\ transform' = Append(transform,
                            copy_display_properties(transform, movie_clip))
                     /\ made(Ok(Object(Len(display_list) + 1)))
                ELSE NoEffect /\ ret(unable_to_instantiate)

\* duplicateMovieClip: the method uses the biased depth
duplicate_movie_clip(movie_clip, args) ==
    duplicate_movie_clip_with_bias(movie_clip, args, AVM_DEPTH_BIAS)

\* MovieClip::highest_depth: the highest depth a child of the clip is at,
\* as the set of it; the empty set for a clip without children
highest_depth(dl, movie_clip) ==
    LET depths == {dl[c].depth : c \in children(dl, movie_clip)}
    IN  {d \in depths : \A e \in depths : e <= d}

\* Option::unwrap_or
unwrap_or(option, default) ==
    IF option = {} THEN default ELSE CHOOSE x \in option : TRUE

\* the record of a get_next_highest_depth call and of what it returned
ReturnsDepth(movie_clip, swf_version, r) ==
    /\ call' = [op |-> "get_next_highest_depth", this |-> movie_clip,
                args |-> << >>, depth_bias |-> AVM_DEPTH_BIAS,
                swf_version |-> swf_version]
    /\ result' = r
    /\ changed' = (state' # state)
    /\ UNCHANGED player

\* getNextHighestDepth: from version 7 on, the script depth after the
\* highest child, and 0 when that is negative
get_next_highest_depth(movie_clip, swf_version) ==
    /\ NoEffect
    /\ IF swf_version >= 7
       THEN LET next == wrapping_sub(
                            unwrap_or(highest_depth(display_list, movie_clip), 0),
                            AVM_DEPTH_BIAS - 1)
                depth == IF next >= 0 THEN next ELSE 0
            IN  ReturnsDepth(movie_clip, swf_version, Ok(Number(depth, 0)))
       ELSE ReturnsDepth(movie_clip, swf_version, Ok(Undefined))

\* a plausible slip: the upper limit is taken inclusive
removable_depth_inclusive(depth) ==
    depth >= AVM_DEPTH_BIAS /\ depth <= AVM_MAX_REMOVE_DEPTH

\* the range of biased depths removeMovieClip removes
removable_depth(depth) == depth >= AVM_DEPTH_BIAS /\ depth < AVM_MAX_REMOVE_DEPTH

\* a plausible slip: the biased depth is written back to the clip
remove_movie_clip_with_bias_set_depth(movie_clip, depth_bias) ==
    LET ret(r) == Returns("remove_movie_clip", movie_clip, << >>, depth_bias, r)
        depth == wrapping_add(display_list[movie_clip].depth, depth_bias)
        p == parent(display_list, movie_clip)
        dl == [display_list EXCEPT ![movie_clip].depth = depth]
    IN  /\ IF removable_depth(depth) /\ p # NoObject
           THEN display_list' = remove_child_from_avm(dl, p, movie_clip)
           ELSE display_list' = dl
        /\ UNCHANGED << transform, timeline, drawing, script_object >>
        /\ ret(Ok(Undefined))

\* a plausible slip: the drag of a clip ends when the clip is removed
remove_movie_clip_with_bias_ends_drag(movie_clip, depth_bias) ==
    LET depth == wrapping_add(display_list[movie_clip].depth, depth_bias)
        p == parent(display_list, movie_clip)
    IN  /\ IF removable_depth(depth) /\ p # NoObject
           THEN /\ display_list' = remove_child_from_avm(display_list, p, movie_clip)
                /\ drag_object' =
                       {d \in drag_object : d.display_object # movie_clip}
           ELSE UNCHANGED << display_list, drag_object >>
        /\ UNCHANGED << transform, timeline, drawing, script_object,
                        fetches, futures >>
        /\ RecordCall("remove_movie_clip", movie_clip, << >>, depth_bias,
                      Ok(Undefined))

remove_movie_clip_with_bias(movie_clip, depth_bias) ==
    LET ret(r) == Returns("remove_movie_clip", movie_clip, << >>, depth_bias, r)
        depth == wrapping_add(display_list[movie_clip].depth, depth_bias)
        p == parent(display_list, movie_clip)
    IN  /\ IF removable_depth(depth) /\ p # NoObject
           THEN display_list' = remove_child_from_avm(display_list, p, movie_clip)
           ELSE UNCHANGED display_list
        /\ UNCHANGED << transform, timeline, drawing, script_object >>
        /\ ret(Ok(Undefined))

\* removeMovieClip: the method uses the biased depth
remove_movie_clip(movie_clip) ==
    remove_movie_clip_with_bias(movie_clip, AVM_DEPTH_BIAS)

\* Activation::resolve_target_display_object from the clip: the value of
\* a display object is that object, undefined is no object
resolve_target_display_object(dl, start, arg) ==
    IF arg.type = "Object" THEN arg.clip ELSE NoObject

\* u16::MAX + 1
U16 == 65536

\* MovieClip::frame_label_to_number: 0 stands for None
frame_label_to_number(tl, movie_clip, frame_label) ==
    IF frame_label \in DOMAIN tl[movie_clip].frame_labels
    THEN tl[movie_clip].frame_labels[frame_label]
    ELSE 0

\* a plausible slip: the play state is left as it was
MovieClip_goto_frame_keeps_state(tl, movie_clip, frame, stop_after) ==
    [tl EXCEPT ![movie_clip].requested = frame,
               ![movie_clip].current_frame =
                   IF frame > tl[movie_clip].total_frames
                   THEN tl[movie_clip].total_frames
                   ELSE frame]

\* MovieClip::goto_frame: the cursor goes to the frame, and to the last
\* frame when the frame is beyond it; the clip is stopped or played
MovieClip_goto_frame(tl, movie_clip, frame, stop_after) ==
    [tl EXCEPT ![movie_clip].requested = frame,
               ![movie_clip].playing = ~stop_after,
               ![movie_clip].current_frame =
                   IF frame > tl[movie_clip].total_frames
                   THEN tl[movie_clip].total_frames
                   ELSE frame]

\* i32::saturating_add(1) as u16
saturating_add_1_as_u16(frame) ==
    (IF frame = MaxI32 THEN MaxI32 ELSE frame + 1) % U16

\* Value::Number(n) if n.fract() == 0.0
goto_is_frame_number(arg) == arg.type = "Number" /\ fract_is_zero(arg)

\* a plausible slip: a label that is not found goes to the first frame
goto_label_or_first(tl, movie_clip, frame_label, scene_offset, stop_after) ==
    LET frame == frame_label_to_number(tl, movie_clip, frame_label)
    IN  MovieClip_goto_frame(tl, movie_clip,
            IF frame # 0 THEN (frame + scene_offset) % U16 ELSE 1, stop_after)

\* the label arm of goto_frame
goto_label(tl, movie_clip, frame_label, scene_offset, stop_after) ==
    LET frame == frame_label_to_number(tl, movie_clip, frame_label)
    IN  IF frame # 0
        THEN MovieClip_goto_frame(tl, movie_clip,
                 (frame + scene_offset) % U16, stop_after)
        ELSE tl

\* the record of a goto_frame call and of what it returned
ReturnsGoto(movie_clip, args, stop_after, scene_offset, r) ==
    /\ call' = [op |-> "goto_frame", this |-> movie_clip, args |-> args,
                depth_bias |-> 0, stop |-> stop_after,
                scene_offset |-> scene_offset]
    /\ result' = r
    /\ changed' = (state' # state)
    /\ UNCHANGED player

goto_frame(movie_clip, args, stop_after, scene_offset) ==
    LET arg == get(args, 1)
        ret(r) == ReturnsGoto(movie_clip, args, stop_after, scene_offset, r)
    IN  /\ UNCHANGED << display_list, transform, drawing, script_object >>
        /\ IF goto_is_frame_number(arg)
           THEN LET frame == wrapping_add(
                        wrapping_add(f64_to_wrapping_i32(arg), -1),
                        scene_offset)
                IN  /\ timeline' =
                           IF frame >= 0
                           THEN MovieClip_goto_frame(timeline, movie_clip,
                                    saturating_add_1_as_u16(frame), stop_after)
                           ELSE timeline
                    /\ ret(Ok(Undefined))
           ELSE IF coercion_fails(arg)
           THEN UNCHANGED timeline /\ ret(Err)
           ELSE /\ timeline' = goto_label(timeline, movie_clip,
                                    coerce_to_string(arg), scene_offset,
                                    stop_after)
                /\ ret(Ok(Undefined))

goto_and_play(movie_clip, args) == goto_frame(movie_clip, args, FALSE, 0)

goto_and_stop(movie_clip, args) == goto_frame(movie_clip, args, TRUE, 0)

\* nextFrame: MovieClip::next_frame moves the cursor by one and stops
next_frame(movie_clip) ==
    /\ timeline' = [timeline EXCEPT ![movie_clip].current_frame = @ + 1,
                                    ![movie_clip].playing = FALSE]
    /\ UNCHANGED << display_list, transform, drawing, script_object >>
    /\ Returns("next_frame", movie_clip, << >>, 0, Ok(Undefined))

\* prevFrame: MovieClip::prev_frame moves the cursor back by one and stops
prev_frame(movie_clip) ==
    /\ timeline' = [timeline EXCEPT ![movie_clip].current_frame = @ - 1,
                                    ![movie_clip].playing = FALSE]
    /\ UNCHANGED << display_list, transform, drawing, script_object >>
    /\ Returns("prev_frame", movie_clip, << >>, 0, Ok(Undefined))

\* play
play(movie_clip) ==
    /\ timeline' = [timeline EXCEPT ![movie_clip].playing = TRUE]
    /\ UNCHANGED << display_list, transform, drawing, script_object >>
    /\ Returns("play", movie_clip, << >>, 0, Ok(Undefined))

\* a plausible slip: the parent of the target is not compared
swap_target_depth_any_parent(dl, movie_clip, p, arg) ==
    IF arg.type = "Number"
    THEN [some |-> TRUE,
          depth |-> wrapping_add(f64_to_wrapping_i32(arg), AVM_DEPTH_BIAS)]
    ELSE LET target == resolve_target_display_object(dl, movie_clip, arg)
         IN  IF target # NoObject
             THEN [some |-> TRUE, depth |-> dl[target].depth]
             ELSE [some |-> FALSE, depth |-> 0]

\* a plausible slip: the depth of the target is biased once more
swap_target_depth_biased(dl, movie_clip, p, arg) ==
    IF arg.type = "Number"
    THEN [some |-> TRUE,
          depth |-> wrapping_add(f64_to_wrapping_i32(arg), AVM_DEPTH_BIAS)]
    ELSE LET target == resolve_target_display_object(dl, movie_clip, arg)
         IN  IF target # NoObject /\ dl[target].parent # NoObject
                /\ dl[target].parent = p
             THEN [some |-> TRUE,
                   depth |-> wrapping_add(dl[target].depth, AVM_DEPTH_BIAS)]
             ELSE [some |-> FALSE, depth |-> 0]

\* the depth swapDepths resolves its argument to; "none" when it has none
swap_target_depth(dl, movie_clip, p, arg) ==
    IF arg.type = "Number"
    THEN [some |-> TRUE,
          depth |-> wrapping_add(f64_to_wrapping_i32(arg), AVM_DEPTH_BIAS)]
    ELSE LET target == resolve_target_display_object(dl, movie_clip, arg)
         IN  IF target # NoObject /\ dl[target].parent # NoObject
                /\ dl[target].parent = p
             THEN [some |-> TRUE, depth |-> dl[target].depth]
             ELSE [some |-> FALSE, depth |-> 0]

\* a plausible slip: the depth is set on the clip, not swapped in the parent
swap_to_depth_by_set_depth(dl, p, movie_clip, depth) ==
    IF depth # dl[movie_clip].depth
    THEN [dl EXCEPT ![movie_clip].depth = depth]
    ELSE dl

\* the swap itself, made only to a depth other than the clip's own
swap_to_depth(dl, p, movie_clip, depth) ==
    IF depth # dl[movie_clip].depth
    THEN swap_child_to_depth(dl, p, movie_clip, depth)
    ELSE dl

\* script code writes the transform of a clip (_x, _rotation, ...) and its
\* color transform (Color.setTransform)
set_matrix(movie_clip, matrix) ==
    /\ transform' = [transform EXCEPT ![movie_clip].matrix = matrix]
    /\ UNCHANGED << display_list, timeline, drawing, script_object >>
    /\ Returns("set_matrix", movie_clip, << >>, 0, Ok(Undefined))

set_color_transform(movie_clip, color_transform) ==
    /\ transform' = [transform EXCEPT ![movie_clip].color_transform = color_transform]
    /\ UNCHANGED << display_list, timeline, drawing, script_object >>
    /\ Returns("set_color_transform", movie_clip, << >>, 0, Ok(Undefined))

\* script code sets a property of the script object of a clip
set_property(movie_clip, property) ==
    /\ script_object' = [script_object EXCEPT ![movie_clip] = @ \cup {property}]
    /\ UNCHANGED << display_list, transform, timeline, drawing >>
    /\ Returns("set_property", movie_clip, << >>, 0, Ok(Undefined))

\* beginFill with a color
begin_fill(movie_clip) ==
    /\ drawing' = [drawing EXCEPT ![movie_clip].fill_style = "color"]
    /\ UNCHANGED << display_list, transform, timeline, script_object >>
    /\ Returns("begin_fill", movie_clip, << >>, 0, Ok(Undefined))

\* stop
stop(movie_clip) ==
    /\ timeline' = [timeline EXCEPT ![movie_clip].playing = FALSE]
    /\ UNCHANGED << display_list, transform, drawing, script_object >>
    /\ Returns("stop", movie_clip, << >>, 0, Ok(Undefined))

swap_depths(movie_clip, args) ==
    LET ret(r) == Returns("swap_depths", movie_clip, args, AVM_DEPTH_BIAS, r)
        arg == get(args, 1)
        p == parent(display_list, movie_clip)
        depth == swap_target_depth(display_list, movie_clip, p, arg)
    IN  /\ UNCHANGED << transform, timeline, drawing, script_object >>
        /\ IF p = NoObject
           THEN UNCHANGED display_list /\ ret(Ok(Undefined))
           ELSE IF arg.type # "Number" /\ coercion_fails(arg)
           THEN UNCHANGED display_list /\ ret(Err)
           ELSE /\ IF depth.some /\ ~depth_out_of_range(depth.depth)
                   THEN display_list' = swap_to_depth(display_list, p,
                                            movie_clip, depth.depth)
                   ELSE UNCHANGED display_list
                /\ ret(Ok(Undefined))

\* coerce_to_object(..).array().len(): a value that is no array has no
\* element
array_len(v) == IF v.type = "Array" THEN v.len ELSE 0

\* MovieClip::set_fill_style, set_line_style, draw_command and clear: the
\* fill style, the line style and the commands of the drawing of the clip
set_fill_style(dr, movie_clip, style) ==
    [dr EXCEPT ![movie_clip].fill_style = style]
set_line_style(dr, movie_clip, style) ==
    [dr EXCEPT ![movie_clip].line_style = style]
draw_command(dr, movie_clip, command) ==
    [dr EXCEPT ![movie_clip].commands = Append(@, command)]
MovieClip_clear(dr, movie_clip) ==
    [dr EXCEPT ![movie_clip] = NewDrawing]

\* what every drawing function leaves alone
DrawingOnly == UNCHANGED << display_list, transform, timeline, script_object >>

\* the coercions lineStyle returns the error of: the width, the color and
\* the alpha, and the miter limit when the join style is "miter"; the
\* errors of the strings of the scale mode, the cap style and the join
\* style are dropped and the string counts as not given
line_style_fails(args) ==
    \/ \E i \in 1..Len(args) : i \in {1, 2, 3} /\ coercion_fails(args[i])
    \/ /\ Len(args) >= 8
       /\ ~coercion_fails(args[7])
       /\ coerce_to_string(args[7]) = "miter"
       /\ coercion_fails(args[8])

\* lineStyle: a style when there is a width, none when there is not
line_style(movie_clip, args) ==
    LET ret(r) == Returns("line_style", movie_clip, args, 0, r)
    IN  /\ DrawingOnly
        /\ IF Len(args) >= 1
           THEN IF line_style_fails(args)
                THEN UNCHANGED drawing /\ ret(Err)
                ELSE /\ drawing' = set_line_style(drawing, movie_clip, "line")
                     /\ ret(Ok(Undefined))
           ELSE /\ drawing' = set_line_style(drawing, movie_clip, "none")
                /\ ret(Ok(Undefined))

\* the fill style beginGradientFill makes of its fill kind; "invalid"
\* for a kind it does not know
gradient_style(method, args) ==
    CASE method = "linear" -> "linear"
      [] method = "radial" -> IF Len(args) >= 8 THEN "focal" ELSE "radial"
      [] OTHER -> "invalid"

\* the color, alpha and ratio arrays are of one length
same_sized_arrays(args) ==
    /\ array_len(args[2]) = array_len(args[3])
    /\ array_len(args[2]) = array_len(args[4])

begin_gradient_fill(movie_clip, args) ==
    LET ret(r) == Returns("begin_gradient_fill", movie_clip, args, 0, r)
    IN  /\ DrawingOnly
        /\ IF Len(args) >= 5
           THEN IF coercion_fails(args[1])
                THEN UNCHANGED drawing /\ ret(Err)
                ELSE IF ~same_sized_arrays(args)
                THEN UNCHANGED drawing /\ ret(Ok(Undefined))
                ELSE IF coercion_fails(args[5])
                THEN UNCHANGED drawing /\ ret(Err)
                ELSE LET style == gradient_style(coerce_to_string(args[1]), args)
                     IN  IF style = "focal" /\ coercion_fails(args[8])
                         THEN UNCHANGED drawing /\ ret(Err)
                         ELSE IF style = "invalid"
                         THEN UNCHANGED drawing /\ ret(Ok(Undefined))
                         ELSE /\ drawing' = set_fill_style(drawing, movie_clip, style)
                              /\ ret(Ok(Undefined))
           ELSE /\ drawing' = set_fill_style(drawing, movie_clip, "none")
                /\ ret(Ok(Undefined))

\* moveTo, lineTo and curveTo: one command when the coordinates are there
\* and coerce, nothing when one is missing
draw_to(op, command, coordinates, movie_clip, args) ==
    LET ret(r) == Returns(op, movie_clip, args, 0, r)
    IN  /\ DrawingOnly
        /\ IF Len(args) >= coordinates
           THEN IF \E i \in 1..coordinates : coercion_fails(args[i])
                THEN UNCHANGED drawing /\ ret(Err)
                ELSE /\ Len(drawing[movie_clip].commands) < MaxCommands
                     /\ drawing' = draw_command(drawing, movie_clip, command)
                     /\ ret(Ok(Undefined))
           ELSE UNCHANGED drawing /\ ret(Ok(Undefined))

move_to(movie_clip, args) == draw_to("move_to", "MoveTo", 2, movie_clip, args)

line_to(movie_clip, args) == draw_to("line_to", "LineTo", 2, movie_clip, args)

curve_to(movie_clip, args) == draw_to("curve_to", "CurveTo", 4, movie_clip, args)

\* a plausible slip: endFill clears the drawing
end_fill_clears(movie_clip) ==
    /\ DrawingOnly
    /\ drawing' = MovieClip_clear(drawing, movie_clip)
    /\ Returns("end_fill", movie_clip, << >>, 0, Ok(Undefined))

end_fill(movie_clip) ==
    /\ DrawingOnly
    /\ drawing' = set_fill_style(drawing, movie_clip, "none")
    /\ Returns("end_fill", movie_clip, << >>, 0, Ok(Undefined))

clear(movie_clip) ==
    /\ DrawingOnly
    /\ drawing' = MovieClip_clear(drawing, movie_clip)
    /\ Returns("clear", movie_clip, << >>, 0, Ok(Undefined))

\* Value::as_bool of the values a drag is started with
as_bool(v) == v.type = "Number" /\ (v.n # 0 \/ v.wraps # 0 \/ v.tenths # 0)

\* avm1::start_drag: the session of the display object, with the
\* lock_center flag of the first argument and the constraint rectangle of
\* the next four, replaces whatever session there was
avm1_start_drag(display_object, args) ==
    { [display_object |-> display_object,
       lock_center |-> as_bool(get(args, 1)),
       constrained |-> Len(args) >= 5] }

\* the record of a drag call, with the sessions it found, and of what it
\* returned
ReturnsDrag(op, movie_clip, args, r) ==
    /\ call' = [op |-> op, this |-> movie_clip, args |-> args,
                depth_bias |-> 0, found |-> drag_object]
    /\ result' = r
    /\ changed' = (state' # state)

start_drag(movie_clip, args) ==
    /\ drag_object' = avm1_start_drag(movie_clip, args)
    /\ UNCHANGED << state, fetches, futures >>
    /\ ReturnsDrag("start_drag", movie_clip, args, Ok(Undefined))

\* a plausible slip: only the clip that is dragged can stop its drag
stop_drag_of_receiver(movie_clip) ==
    /\ drag_object' = {d \in drag_object : d.display_object # movie_clip}
    /\ UNCHANGED << state, fetches, futures >>
    /\ ReturnsDrag("stop_drag", movie_clip, << >>, Ok(Undefined))

\* stopDrag: whatever the receiver, no drag is left
stop_drag(movie_clip) ==
    /\ drag_object' = {}
    /\ UNCHANGED << state, fetches, futures >>
    /\ ReturnsDrag("stop_drag", movie_clip, << >>, Ok(Undefined))

\* NavigationMethod::from_method_str
from_method_str(method) ==
    CASE method = "GET" -> "Get"
      [] method = "POST" -> "Post"
      [] OTHER -> "None"

\* Activation::locals_into_request_options and Navigator::fetch: the
\* request that is submitted
request(url, method) == [url |-> url, method |-> method]

\* DisplayObject::MovieClip(target): the clip itself, which is not its
\* script object
DisplayObject(c) == [type |-> "DisplayObject", clip |-> c, throws |-> FALSE]

\* LoadManager::load_movie_into_clip / load_form_into_object: the process
\* of a load, keyed to its target, that waits for the fetch
load_process(kind, target, fetch) ==
    [kind |-> kind, target |-> target, fetch |-> fetch]

\* the submission both loads share: one fetch, one process spawned
submit_load(op, movie_clip, args, kind, target) ==
    LET url_val == get(args, 1)
        method == get(args, 2)
        ret(r) == RecordCall(op, movie_clip, args, 0, r)
    IN  /\ UNCHANGED << state, drag_object >>
        /\ IF coercion_fails(url_val) \/ coercion_fails(method)
           THEN UNCHANGED << fetches, futures >> /\ ret(Err)
           ELSE /\ Len(fetches) < MaxLoads
                /\ fetches' = Append(fetches,
                       request(coerce_to_string(url_val),
                               from_method_str(coerce_to_string(method))))
                /\ futures' = Append(futures,
                       load_process(kind, target, Len(fetches) + 1))
                /\ ret(Ok(Undefined))

\* a plausible slip: nothing is submitted for a clip that has no parent
load_movie_unless_removed(target, args) ==
    IF display_list[target].parent = NoObject
    THEN /\ UNCHANGED << state, player >>
         /\ RecordCall("load_movie", target, args, 0, Ok(Undefined))
    ELSE submit_load("load_movie", target, args, "movie", DisplayObject(target))

\* loadMovie: the process is keyed to the clip
load_movie(target, args) ==
    submit_load("load_movie", target, args, "movie", DisplayObject(target))

\* a plausible slip: the process is keyed to the clip, not to its object
load_variables_into_clip(target, args) ==
    submit_load("load_variables", target, args, "form", DisplayObject(target))

\* loadVariables: the process is keyed to the script object of the clip
load_variables(target, args) ==
    submit_load("load_variables", target, args, "form", Object(target))

\* the clip is in the tree of the root
RECURSIVE in_tree(_, _)
in_tree(dl, c) ==
    IF c = Root THEN TRUE
    ELSE IF dl[c].parent = NoObject THEN FALSE
    ELSE in_tree(dl, dl[c].parent)

\* the display object a load process is for
process_clip(process) == process.target.clip

\* the content a finished fetch brings
LoadedMovie == 2

\* the continuation of a load, run by the executor when the fetch is
\* done: a movie replaces the content of the clip, a form is merged into
\* the script object; with a target that was removed or replaced it does
\* nothing
apply_load(i) ==
    LET process == futures[i]
        c == process_clip(process)
    IN  /\ futures' = [j \in 1..(Len(futures) - 1) |->
                           IF j < i THEN futures[j] ELSE futures[j + 1]]
        /\ UNCHANGED << transform, drag_object, fetches >>
        /\ IF ~in_tree(display_list, c)
           THEN UNCHANGED << display_list, timeline, drawing, script_object >>
           ELSE IF process.kind = "movie"
           THEN /\ display_list' = [display_list EXCEPT ![c].id = LoadedMovie]
                /\ timeline' = [timeline EXCEPT ![c] = NewTimeline]
                /\ drawing' = [drawing EXCEPT ![c] = NewDrawing]
                /\ UNCHANGED script_object
           ELSE /\ script_object' = [script_object EXCEPT ![c] = @ \cup {"loaded"}]
                /\ UNCHANGED << display_list, timeline, drawing >>
        /\ RecordCall("apply_load", c, << >>, 0, Ok(Undefined))

\* unloadMovie: MovieClip::unload and replace_with_movie(None) leave the
\* clip where it is, without children and with empty content
unload_movie(target) ==
    /\ display_list' =
           [c \in 1..Len(display_list) |->
               IF c = target THEN [display_list[c] EXCEPT !.id = 0]
               ELSE IF display_list[c].parent = target
               THEN [display_list[c] EXCEPT !.parent = NoObject]
               ELSE display_list[c]]
    /\ timeline' = [timeline EXCEPT ![target] = NewTimeline]
    /\ drawing' = [drawing EXCEPT ![target] = NewDrawing]
    /\ UNCHANGED << transform, script_object >>
    /\ Returns("unload_movie", target, << >>, 0, Ok(Undefined))

\* with_movie_clip!: a receiver that is no movie clip gets undefined
not_a_movie_clip(this, op) ==
    /\ display_list[this].kind # "MovieClip"
    /\ NoEffect
    /\ Returns(op, this, << >>, 0, Ok(Undefined))

---------------------------------------------------------------------------
(* The tree specification: every call a script can make on the tree *)

\* the root of a movie
RootObject ==
    [parent |-> NoObject, depth |-> 0, name |-> "root", kind |-> "MovieClip",
     id |-> 0]
\* a child of the root that the timeline placed, or a script attached, at
\* the depth
ChildObject(name, depth) ==
    [parent |-> Root, depth |-> depth, name |-> name, kind |-> "MovieClip",
     id |-> 1]

\* no call made yet, every display object as its constructor and first
\* tick left it
Started(dl) ==
    /\ display_list = dl
    /\ transform = [c \in 1..Len(dl) |-> NewTransform]
    /\ timeline = [c \in 1..Len(dl) |-> run_frame(<< NewTimeline >>, 1)[1]]
    /\ drawing = [c \in 1..Len(dl) |-> NewDrawing]
    /\ script_object = [c \in 1..Len(dl) |-> NewScriptObject]
    /\ drag_object = {}
    /\ fetches = << >>
    /\ futures = << >>

\* The root of the movie and one child its timeline placed at depth 1
Init ==
    /\ Started(<< RootObject, ChildObject("s", 1) >>)
    /\ call = [op |-> "none", this |-> NoObject, args |-> << >>, depth_bias |-> 0]
    /\ result = Ok(Undefined)
    /\ changed = FALSE

\* Script depths: one below every range, the one of the timeline's child,
\* the first of the dynamic range
TreeDepths ==
    {Number((-AVM_DEPTH_BIAS) - 1, 0), Number(1 - AVM_DEPTH_BIAS, 0), Number(0, 0)}

TreeAttachArgs ==
    {<< String("sym"), String("a"), d >> : d \in TreeDepths}
    \cup { << String("sym"), String("b"), Number(0, 0) >>,
           << String("nosuch"), String("a"), Number(0, 0) >>,
           << String("sym"), String("a") >> }

TreeCreateArgs ==
    {<< String("a"), d >> : d \in TreeDepths} \cup { << String("a") >> }

TreeTextFieldArgs == { << String("a"), Number(0, 0) >> }

TreeDuplicateArgs ==
    TreeCreateArgs \cup { << >>, << String("a"), Thrower >> }

TreeCloneArgs ==
    {<< String("a"), d >> : d \in {Number(-1, 0), Number(AVM_DEPTH_BIAS, 0)}}

TreeSwapArgs ==
    {<< d >> : d \in TreeDepths} \cup {<< Object(c) >> : c \in Clips}
    \cup { << >>, << Thrower >> }

TreeAttachMovie ==
    \E this \in MovieClips, args \in TreeAttachArgs : attach_movie(this, args)
TreeCreateEmptyMovieClip ==
    \E this \in MovieClips, args \in TreeCreateArgs :
        create_empty_movie_clip(this, args)
TreeCreateTextField ==
    \E this \in MovieClips, args \in TreeTextFieldArgs :
        create_text_field(this, args, 8)
TreeDuplicateMovieClip ==
    \E this \in MovieClips, args \in TreeDuplicateArgs :
        duplicate_movie_clip(this, args)
TreeCloneSprite ==
    \E this \in MovieClips, args \in TreeCloneArgs :
        duplicate_movie_clip_with_bias(this, args, 0)
TreeRemoveMovieClip ==
    \E this \in MovieClips : remove_movie_clip(this)
TreeRemoveSprite ==
    \E this \in MovieClips : remove_movie_clip_with_bias(this, 0)
TreeSwapDepths ==
    \E this \in MovieClips, args \in TreeSwapArgs : swap_depths(this, args)
TreeNotAMovieClip ==
    \E this \in Clips : not_a_movie_clip(this, "swap_depths")

Next ==
    \/ TreeAttachMovie
    \/ TreeCreateEmptyMovieClip
    \/ TreeCreateTextField
    \/ TreeDuplicateMovieClip
    \/ TreeCloneSprite
    \/ TreeRemoveMovieClip
    \/ TreeRemoveSprite
    \/ TreeSwapDepths
    \/ TreeNotAMovieClip

Spec == Init /\ [][Next]_vars

---------------------------------------------------------------------------
(* The depth specification: the calls that test a depth, with depths at   *)
(* the edges of every range tested; new clips are made in the root        *)

\* script depths whose biased depth is -1, 0, AVM_DEPTH_BIAS - 1,
\* AVM_DEPTH_BIAS, the last removable and the first not removable under
\* either bias, AVM_MAX_DEPTH, AVM_MAX_DEPTH + 1, and one that wraps
EdgeDepths ==
    { (-AVM_DEPTH_BIAS) - 1, -AVM_DEPTH_BIAS, -1, 0,
      ((AVM_MAX_REMOVE_DEPTH - AVM_DEPTH_BIAS) - AVM_DEPTH_BIAS) - 1,
      (AVM_MAX_REMOVE_DEPTH - AVM_DEPTH_BIAS) - AVM_DEPTH_BIAS,
      (AVM_MAX_REMOVE_DEPTH - AVM_DEPTH_BIAS) - 1,
      AVM_MAX_REMOVE_DEPTH - AVM_DEPTH_BIAS,
      AVM_MAX_DEPTH - AVM_DEPTH_BIAS, (AVM_MAX_DEPTH - AVM_DEPTH_BIAS) + 1,
      MaxI32 }

DepthAttachMovie ==
    \E d \in EdgeDepths :
        attach_movie(Root, << String("sym"), String("a"), Number(d, 0) >>)
DepthCreateEmptyMovieClip ==
    \E d \in {(-AVM_DEPTH_BIAS) - 1, 0, (AVM_MAX_DEPTH - AVM_DEPTH_BIAS) + 1,
               AVM_MAX_DEPTH, MaxI32 - AVM_DEPTH_BIAS, MaxI32} :
        create_empty_movie_clip(Root, << String("a"), Number(d, 0) >>)
DepthDuplicateMovieClip ==
    \E this \in MovieClips,
       d \in {(-AVM_DEPTH_BIAS) - 1, -1, (AVM_MAX_DEPTH - AVM_DEPTH_BIAS) + 1} :
        duplicate_movie_clip(this, << String("a"), Number(d, 0) >>)
DepthCloneSprite ==
    \E this \in MovieClips, d \in {-1, 0, AVM_MAX_DEPTH, AVM_MAX_DEPTH + 1} :
        duplicate_movie_clip_with_bias(this, << String("a"), Number(d, 0) >>, 0)
DepthRemoveMovieClip ==
    \E this \in MovieClips : remove_movie_clip(this)
DepthRemoveSprite ==
    \E this \in MovieClips : remove_movie_clip_with_bias(this, 0)
DepthGetNextHighestDepth ==
    \E this \in MovieClips, swf_version \in {6, 7} :
        get_next_highest_depth(this, swf_version)

NextDepth ==
    \/ DepthGetNextHighestDepth
    \/ DepthCreateEmptyMovieClip
    \/ DepthAttachMovie
    \/ DepthDuplicateMovieClip
    \/ DepthCloneSprite
    \/ DepthRemoveMovieClip
    \/ DepthRemoveSprite

SpecDepth == Init /\ [][NextDepth]_vars

---------------------------------------------------------------------------
(* The swap specification: three children of the root, and every swap and *)
(* remove of them                                                         *)

InitSwap ==
    /\ Started(<< RootObject, ChildObject("s", 1),
                  ChildObject("a", AVM_DEPTH_BIAS),
                  ChildObject("b", AVM_DEPTH_BIAS + 1) >>)
    /\ call = [op |-> "none", this |-> NoObject, args |-> << >>, depth_bias |-> 0]
    /\ result = Ok(Undefined)
    /\ changed = FALSE

SwapDepthsArgs ==
    {<< Number(d, 0) >> : d \in {(-AVM_DEPTH_BIAS) - 1, 1 - AVM_DEPTH_BIAS, 0, 1, 2}}
    \cup {<< Object(c) >> : c \in Clips}
    \cup { << >> }

SwapSwapDepths ==
    \E this \in MovieClips, args \in SwapDepthsArgs : swap_depths(this, args)
SwapRemoveMovieClip ==
    \E this \in MovieClips : remove_movie_clip(this)

NextSwap == SwapSwapDepths \/ SwapRemoveMovieClip

SpecSwap == InitSwap /\ [][NextSwap]_vars

---------------------------------------------------------------------------
(* The duplicate specification: script code changes the display           *)
(* properties, the timeline, the drawing and the script object of the     *)
(* timeline's child, and clips are duplicated                             *)

PropsSetMatrix ==
    \E m \in {"identity", "moved"} : set_matrix(2, m)
PropsSetColorTransform ==
    \E ct \in {"identity", "tinted"} : set_color_transform(2, ct)
PropsSetProperty == set_property(2, "x")
PropsBeginFill == begin_fill(2)
PropsStop == stop(2)
PropsDuplicateMovieClip ==
    \E this \in MovieClips,
       args \in {<< String("a"), Number(0, 0) >>,
                 << String("b"), Number(1 - AVM_DEPTH_BIAS, 0) >>,
                 << String("a"), Number(0, 0), Object(2) >>} :
        duplicate_movie_clip(this, args)
PropsCloneSprite ==
    \E this \in MovieClips,
       args \in {<< String("a"), Number(1, 0) >>,
                 << String("b"), Number(AVM_DEPTH_BIAS, 0) >>} :
        duplicate_movie_clip_with_bias(this, args, 0)

NextProps ==
    \/ PropsSetMatrix
    \/ PropsSetColorTransform
    \/ PropsSetProperty
    \/ PropsBeginFill
    \/ PropsStop
    \/ PropsDuplicateMovieClip
    \/ PropsCloneSprite

SpecProps == Init /\ [][NextProps]_vars

---------------------------------------------------------------------------
(* The timeline specification: the root and its child have timelines of   *)
(* three frames, the child's with one of several label tables, and        *)
(* scripts drive both                                                     *)

TimelineFrames == 3

LabelTables ==
    { NoLabels,
      [label \in {"a"} |-> 2],
      [label \in {"2.5", "undefined"} |-> 3] }

InitTimeline ==
    /\ \E labels \in LabelTables :
        /\ display_list = << RootObject, ChildObject("s", 1) >>
        /\ transform = [c \in 1..2 |-> NewTransform]
        /\ drawing = [c \in 1..2 |-> NewDrawing]
        /\ script_object = [c \in 1..2 |-> NewScriptObject]
        /\ drag_object = {}
        /\ fetches = << >>
        /\ futures = << >>
        /\ timeline = [c \in 1..2 |->
               [current_frame |-> 1, playing |-> TRUE,
                total_frames |-> TimelineFrames,
                frame_labels |-> IF c = 2 THEN labels ELSE NoLabels,
                requested |-> 0]]
    /\ call = [op |-> "none", this |-> NoObject, args |-> << >>, depth_bias |-> 0]
    /\ result = Ok(Undefined)
    /\ changed = FALSE

GotoArgs ==
    {<< Number(n, 0) >> : n \in {0, 1, 2, 5, U16 + 1, MinI32}}
    \cup {<< Number(1, 1) >>, << Fractional(2, 5) >>}
    \cup {<< String("a") >>, << String("b") >>, << >>, << Thrower >>}

GotoFrame2Args == {<< Number(0, 0) >>, << Number(2, 0) >>, << String("a") >>}

SceneOffsets == {1, U16 - 1}

\* gotos and frame steps are made on the child, inside its timeline
TimelineGotoAndPlay == \E args \in GotoArgs : goto_and_play(2, args)
TimelineGotoAndStop == \E args \in GotoArgs : goto_and_stop(2, args)
\* the GotoFrame2 action, which gives a scene offset
TimelineGotoFrame2 ==
    \E args \in GotoFrame2Args, stop_after \in BOOLEAN,
       scene_offset \in SceneOffsets :
        goto_frame(2, args, stop_after, scene_offset)
TimelineNextFrame ==
    /\ timeline[2].current_frame < timeline[2].total_frames
    /\ next_frame(2)
TimelinePrevFrame ==
    /\ timeline[2].current_frame > 1
    /\ prev_frame(2)
TimelinePlay == \E this \in MovieClips : play(this)
TimelineStop == \E this \in MovieClips : stop(this)

NextTimeline ==
    \/ TimelineGotoAndPlay
    \/ TimelineGotoAndStop
    \/ TimelineGotoFrame2
    \/ TimelineNextFrame
    \/ TimelinePrevFrame
    \/ TimelinePlay
    \/ TimelineStop

SpecTimeline == InitTimeline /\ [][NextTimeline]_vars

---------------------------------------------------------------------------
(* The drag specification: clips are attached to and removed from the     *)
(* root, and drags are started and stopped on every clip                  *)

StartDragArgs ==
    { << >>, << Number(1, 0) >>,
      << Number(0, 0), Number(0, 0), Number(0, 0), Number(5, 0), Number(5, 0) >> }

DragStartDrag ==
    \E this \in MovieClips, args \in StartDragArgs : start_drag(this, args)
DragStopDrag ==
    \E this \in MovieClips : stop_drag(this)
DragAttachMovie ==
    \E d \in {0, 1} :
        attach_movie(Root, << String("sym"), String("a"), Number(d, 0) >>)
DragRemoveMovieClip ==
    \E this \in MovieClips : remove_movie_clip(this)
NextDrag ==
    \/ DragStartDrag
    \/ DragStopDrag
    \/ DragAttachMovie
    \/ DragRemoveMovieClip

SpecDrag == Init /\ [][NextDrag]_vars

---------------------------------------------------------------------------
(* The session specification: a drag of the child of the root is started  *)
(* and stopped among the calls that make, move, remove and unload clips,  *)
(* step a timeline and draw                                               *)

SessionStartDrag == \E this \in MovieClips \ {Root} : start_drag(this, << >>)
SessionStopDrag == stop_drag(Root)
SessionAttachMovie ==
    attach_movie(Root, << String("sym"), String("a"), Number(0, 0) >>)
SessionCreateEmptyMovieClip ==
    create_empty_movie_clip(2, << String("b"), Number(0, 0) >>)
SessionDuplicateMovieClip ==
    \E this \in MovieClips \ {Root} :
        duplicate_movie_clip(this, << String("c"), Number(1, 0) >>)
SessionRemoveMovieClip ==
    \E this \in MovieClips \ {Root} : remove_movie_clip(this)
SessionSwapDepths ==
    \E this \in MovieClips \ {Root} : swap_depths(this, << Number(0, 0) >>)
SessionUnloadMovie == unload_movie(2)
SessionStop == stop(2)
SessionBeginFill == begin_fill(2)

NextSession ==
    \/ SessionStartDrag
    \/ SessionStopDrag
    \/ SessionAttachMovie
    \/ SessionCreateEmptyMovieClip
    \/ SessionDuplicateMovieClip
    \/ SessionRemoveMovieClip
    \/ SessionSwapDepths
    \/ SessionUnloadMovie
    \/ SessionStop
    \/ SessionBeginFill

SpecSession == Init /\ [][NextSession]_vars

---------------------------------------------------------------------------
(* The load specification: loads are submitted for the clips, clips are  *)
(* removed and replaced, and the executor runs the continuations in any  *)
(* order                                                                 *)

LoadArgs ==
    { << String("u"), String("GET") >>, << Thrower >>,
      << String("u"), Thrower >> }

LoadLoadMovie ==
    \E this \in MovieClips \ {Root}, args \in LoadArgs : load_movie(this, args)
LoadLoadVariables ==
    \E this \in MovieClips \ {Root}, args \in LoadArgs : load_variables(this, args)
LoadApply ==
    \E i \in 1..Len(futures) : apply_load(i)
\* a clip attached where the author-placed child is replaces it
LoadAttachMovie ==
    attach_movie(Root, << String("sym"), String("a"), Number(1 - AVM_DEPTH_BIAS, 0) >>)
LoadRemoveMovieClip ==
    \E this \in MovieClips : remove_movie_clip(this)

NextLoad ==
    \/ LoadLoadMovie
    \/ LoadLoadVariables
    \/ LoadApply
    \/ LoadAttachMovie
    \/ LoadRemoveMovieClip

SpecLoad == Init /\ [][NextLoad]_vars

---------------------------------------------------------------------------
(* The drawing specification: scripts draw into the root and its child    *)

GradientMatrix == Object(NoObject)

GradientArgs ==
    { << String("linear"), Array(2), Array(2), Array(2), GradientMatrix >>,
      << String("radial"), Array(1), Array(1), Array(1), GradientMatrix >>,
      << String("radial"), Array(1), Array(1), Array(1), GradientMatrix,
         Undefined, Undefined, Number(0, 0) >>,
      << String("linear"), Array(2), Array(1), Array(2), GradientMatrix >>,
      << String("linear"), Array(2), Array(2), Array(1), GradientMatrix >>,
      << String("conic"), Array(2), Array(2), Array(2), GradientMatrix >>,
      << Thrower, Array(2), Array(2), Array(2), GradientMatrix >>,
      << String("linear"), Array(2), Array(2), Array(2), GradientMatrix,
         Thrower >>,
      << String("linear") >> }

PointArgs == { << Number(1, 0), Number(2, 0) >>, << Number(1, 0) >>,
               << Number(1, 0), Thrower >> }

CurveArgs == { << Number(1, 0), Number(2, 0), Number(3, 0), Number(4, 0) >>,
               << Number(1, 0), Number(2, 0) >> }

LineStyleArgs ==
    { << >>, << Number(1, 0) >>, << Thrower >>,
      << Number(1, 0), Number(0, 0), Number(100, 0), Undefined, Thrower >>,
      << Number(1, 0), Number(0, 0), Number(100, 0), Undefined,
         String("normal"), String("none"), String("miter"), Thrower >>,
      << Number(1, 0), Number(0, 0), Number(100, 0), Undefined,
         String("normal"), String("none"), String("bevel"), Thrower >> }

DrawingLineStyle == \E args \in LineStyleArgs : line_style(2, args)
DrawingBeginFill == begin_fill(2)
DrawingBeginGradientFill ==
    \E args \in GradientArgs : begin_gradient_fill(2, args)
DrawingMoveTo == \E args \in PointArgs : move_to(2, args)
DrawingLineTo == \E args \in PointArgs : line_to(2, args)
DrawingCurveTo == \E args \in CurveArgs : curve_to(2, args)
DrawingEndFill == end_fill(2)
DrawingClear == \E this \in MovieClips : clear(this)

NextDrawing ==
    \/ DrawingLineStyle
    \/ DrawingBeginFill
    \/ DrawingBeginGradientFill
    \/ DrawingMoveTo
    \/ DrawingLineTo
    \/ DrawingCurveTo
    \/ DrawingEndFill
    \/ DrawingClear

SpecDrawing == Init /\ [][NextDrawing]_vars

---------------------------------------------------------------------------
(* Claims *)

\* the children of a parent at a depth
children_at(dl, p, depth) == {c \in children(dl, p) : dl[c].depth = depth}

\* C1: after any sequence of attach, create_empty, create_text_field,
\* duplicate, swap_depth and remove calls, no two children of one parent
\* have the same depth, so the children of a parent are enumerable in
\* strictly ascending depth order.
C1_UniqueDepths ==
    \A a \in Clips, b \in Clips :
        (a # b /\ display_list[a].parent # NoObject
              /\ display_list[a].parent = display_list[b].parent)
            => display_list[a].depth # display_list[b].depth

\* C1 witness: a swap has just exchanged two children of a parent
C1_Witness ==
    /\ call.op = "swap_depths" /\ changed
    /\ Cardinality(children(display_list, display_list[call.this].parent)) >= 2
    /\ call.args[1].type = "Number"

\* the call made last had all the arguments it reads, and every coercion
\* of them succeeded
WellFormedCall(n) ==
    Len(call.args) >= n /\ \A i \in 1..Len(call.args) : ~coercion_fails(call.args[i])

\* the number the last call was given as its i-th argument
NumberArg(i) == call.args[i].n

\* where the last call has its depth argument: after the export name and
\* the instance name in attach, after the instance name in the others
DepthArg == IF call.op = "attach_movie" THEN 3 ELSE 2

\* the call made last returned the script object of a new display object
ReturnedObject == result.kind = "Ok" /\ result.value.type = "Object"

C3_Original ==
    (call.op \in {"attach_movie", "create_empty_movie_clip", "duplicate_movie_clip"}
        /\ ReturnedObject)
    => /\ display_list[result.value.clip].depth >= AVM_DEPTH_BIAS
       /\ display_list[result.value.clip].depth <= AVM_DEPTH_BIAS + AVM_MAX_DEPTH

\* C6 as claimed: removeMovieClip never detaches a clip whose depth is below
\* AVM_DEPTH_BIAS.
C6_Original ==
    (call.op = "remove_movie_clip" /\ call.depth_bias = AVM_DEPTH_BIAS
        /\ display_list[call.this].depth < AVM_DEPTH_BIAS)
    => ~changed

\* C5: remove(node, depth_bias) detaches the node from its parent if and
\* only if the node has a parent and the wrapping sum of its depth and the
\* bias is in AVM_DEPTH_BIAS .. 2130706415; otherwise nothing changes; the
\* result is undefined either way.
C5_RemoveIff ==
    [][call'.op = "remove_movie_clip" =>
        LET node == call'.this
            sum == wrapping_add(display_list[node].depth, call'.depth_bias)
        IN  /\ result' = Ok(Undefined)
            /\ UNCHANGED << transform, timeline, drawing, script_object >>
            /\ IF display_list[node].parent # NoObject
                  /\ sum >= AVM_DEPTH_BIAS /\ sum < 2130706416
               THEN /\ display_list'[node].parent = NoObject
                    /\ \A c \in Clips \ {node} : display_list'[c] = display_list[c]
               ELSE UNCHANGED display_list
    ]_vars

\* C5 witness: removeMovieClip detached a clip whose biased depth is the
\* last of the range, 2130706415
C5_Witness ==
    /\ call.op = "remove_movie_clip" /\ call.depth_bias = AVM_DEPTH_BIAS
    /\ changed
    /\ display_list[call.this].depth + AVM_DEPTH_BIAS = AVM_MAX_REMOVE_DEPTH - 1
    /\ display_list[call.this].parent = NoObject

\* C4: for every valid script depth d, a successful attach or create_empty
\* makes the new clip the child of the receiver at depth d + AVM_DEPTH_BIAS,
\* carrying the requested name; a clip that held that depth is overwritten
\* and is no longer a child of the receiver.
C4_AttachInserts ==
    (call.op \in {"attach_movie", "create_empty_movie_clip"} /\ ReturnedObject
        /\ NumberArg(DepthArg) >= 0 /\ NumberArg(DepthArg) <= AVM_MAX_DEPTH)
    => LET new_clip == result.value.clip
           d == NumberArg(DepthArg)
       IN  /\ display_list[new_clip].parent = call.this
           /\ display_list[new_clip].depth = d + AVM_DEPTH_BIAS
           /\ display_list[new_clip].name = call.args[DepthArg - 1].s
           /\ children_at(display_list, call.this, d + AVM_DEPTH_BIAS) = {new_clip}

\* C4 witness: attach at script depth 0 put the new clip at AVM_DEPTH_BIAS in
\* the root, and the timeline's child, which a swap had moved to that depth,
\* has left the root
C4_Witness ==
    /\ call.op = "attach_movie" /\ ReturnedObject /\ call.this = Root
    /\ NumberArg(3) = 0
    /\ display_list[result.value.clip].depth = AVM_DEPTH_BIAS
    /\ display_list[2].depth = AVM_DEPTH_BIAS
    /\ display_list[2].parent = NoObject

\* C7: remove is idempotent: a second remove of the same clip, right after
\* the first, changes nothing.
C7_RemoveIdempotent ==
    [][(call.op = "remove_movie_clip" /\ call'.op = "remove_movie_clip"
            /\ call'.this = call.this /\ call'.depth_bias = call.depth_bias)
        => (UNCHANGED state /\ ~changed')]_vars

\* C7 witness: remove was called on a clip of removable depth that a remove
\* had already detached, and changed nothing
C7_Witness ==
    /\ call.op = "remove_movie_clip" /\ ~changed
    /\ call.this # Root
    /\ display_list[call.this].parent = NoObject
    /\ removable_depth(wrapping_add(display_list[call.this].depth, call.depth_bias))

\* C8 as claimed: on a receiver that has no parent, duplicate, remove and
\* swap_depth leave everything as it was and return undefined, whatever
\* their arguments.
C8_Original ==
    [][(call'.op \in {"duplicate_movie_clip", "remove_movie_clip", "swap_depths"}
            /\ display_list[call'.this].parent = NoObject)
        => (UNCHANGED state /\ result' = Ok(Undefined))]_vars

\* what a duplicate that returned a new clip gave it: the matrix and the
\* color transform of the source, the requested name, the parent of the
\* source, the computed depth, and nothing else of the source: a fresh
\* timeline that ran one frame, an empty drawing, and only the properties
\* of the init object
DuplicateCopies ==
    LET source == call'.this
        new_clip == result'.value.clip
    IN  /\ transform'[new_clip].matrix = transform[source].matrix
        /\ transform'[new_clip].color_transform = transform[source].color_transform
        /\ display_list'[new_clip].name = call'.args[1].s
        /\ display_list'[new_clip].parent = display_list[source].parent
        /\ display_list'[new_clip].depth = call'.args[2].n + call'.depth_bias
        /\ timeline'[new_clip] = [NewTimeline EXCEPT !.current_frame = 1]
        /\ drawing'[new_clip] = NewDrawing
        /\ script_object'[new_clip] =
               IF Len(call'.args) >= 3 /\ call'.args[3].type = "Object"
               THEN script_object[call'.args[3].clip]
               ELSE NewScriptObject

\* the properties of the source a duplicate leaves alone
SourceProperties(source) ==
    /\ transform'[source] = transform[source]
    /\ timeline'[source] = timeline[source]
    /\ drawing'[source] = drawing[source]
    /\ script_object'[source] = script_object[source]

DuplicateReturnedObject ==
    call'.op = "duplicate_movie_clip" /\ result'.kind = "Ok"
    /\ result'.value.type = "Object"

\* C9 as claimed: a duplicate that returns a new clip copies the matrix and
\* the color transform only, gives the new clip the requested name, the
\* parent of the source and the computed depth, copies no other state of
\* the source, and leaves the source node as it was.
C9_Original ==
    [][DuplicateReturnedObject
        => /\ DuplicateCopies
           /\ SourceProperties(call'.this)
           /\ display_list'[call'.this] = display_list[call'.this]]_vars

\* C9: a duplicate that returns a new clip copies the matrix and the color
\* transform only, gives the new clip the requested name, the parent of the
\* source and the computed depth, and copies no other state of the source.
\* The source keeps its properties, and it keeps its place in the tree
\* unless the computed depth is its own: then the new clip takes its place
\* and the source is left without a parent.
C9_DuplicateCopies ==
    [][DuplicateReturnedObject
        => LET source == call'.this
               depth == call'.args[2].n + call'.depth_bias
           IN  /\ DuplicateCopies
               /\ SourceProperties(source)
               /\ display_list'[source] =
                      IF depth = display_list[source].depth
                      THEN [display_list[source] EXCEPT !.parent = NoObject]
                      ELSE display_list[source]]_vars

\* C9 witness: a clip that was moved, tinted, stopped, drawn into and given
\* a property was duplicated to a depth that is not its own; the new clip
\* has its matrix and color transform and none of the rest
C9_Witness ==
    /\ call.op = "duplicate_movie_clip" /\ ReturnedObject
    /\ display_list[call.this].parent # NoObject
    /\ display_list[call.this].depth # display_list[result.value.clip].depth
    /\ transform[call.this] = [matrix |-> "moved", color_transform |-> "tinted"]
    /\ transform[result.value.clip] = transform[call.this]
    /\ ~timeline[call.this].playing /\ timeline[result.value.clip].playing
    /\ drawing[call.this].fill_style = "color"
    /\ drawing[result.value.clip] = NewDrawing
    /\ script_object[call.this] = {"x"}
    /\ script_object[result.value.clip] = {}

\* the sibling a swap_depths call names: the clip its argument is, or the
\* one at the depth its argument is
SwapPartner(dl, A, arg) ==
    {B \in children(dl, dl[A].parent) \ {A} :
        \/ arg.type = "Object" /\ arg.clip = B
        \/ arg.type = "Number" /\ arg.wraps = 0
              /\ dl[B].depth = arg.n + AVM_DEPTH_BIAS}

DepthInRange(depth) == depth >= 0 /\ depth <= AVM_MAX_DEPTH

\* C10: swap_depths of A with a sibling B, A and B distinct, their depths
\* different and both in [0, AVM_MAX_DEPTH], exchanges the two depths
\* exactly; no other sibling's depth changes and no clip changes parent.
C10_SwapExchanges ==
    [][(call'.op = "swap_depths" /\ Len(call'.args) >= 1
            /\ display_list[call'.this].parent # NoObject)
        => \A B \in SwapPartner(display_list, call'.this, call'.args[1]) :
            LET A == call'.this
            IN  (/\ display_list[A].depth # display_list[B].depth
                 /\ DepthInRange(display_list[A].depth)
                 /\ DepthInRange(display_list[B].depth))
                => /\ display_list'[A].depth = display_list[B].depth
                   /\ display_list'[B].depth = display_list[A].depth
                   /\ \A c \in Clips \ {A, B} : display_list'[c] = display_list[c]
                   /\ \A c \in Clips :
                          display_list'[c].parent = display_list[c].parent
                   /\ Len(display_list') = Len(display_list)
                   /\ UNCHANGED << transform, timeline, drawing, script_object >>]_vars

\* C10 witness: the clip made at depth 16384 was swapped with the sibling
\* given as an object, the clip made at depth 16385, and they now have one
\* another's depths while the third sibling kept its own
C10_Witness ==
    /\ call.op = "swap_depths" /\ changed
    /\ Len(display_list) = 4
    /\ call.this = 3 /\ call.args = << Object(4) >>
    /\ display_list[3].parent = Root /\ display_list[4].parent = Root
    /\ display_list[3].depth = AVM_DEPTH_BIAS + 1
    /\ display_list[4].depth = AVM_DEPTH_BIAS
    /\ display_list[2].depth = 1 /\ display_list[2].parent = Root

\* the swap_depths call being made names, by a value that is no number and
\* whose resolution does not throw, no clip at all, a clip without a
\* parent, or a clip whose parent is not the receiver's
SwapTargetIsNoSibling ==
    /\ call'.op = "swap_depths"
    /\ LET arg == get(call'.args, 1)
           target == resolve_target_display_object(display_list, call'.this, arg)
       IN  /\ arg.type # "Number" /\ ~coercion_fails(arg)
           /\ \/ target = NoObject
              \/ display_list[target].parent = NoObject
              \/ display_list[target].parent # display_list[call'.this].parent

\* C11: swap_depths whose target does not resolve, has no parent, or has a
\* parent other than the receiver's changes no depth and no parent, and
\* returns undefined.
C11_SwapNonSibling ==
    [][SwapTargetIsNoSibling
        => (UNCHANGED state /\ result' = Ok(Undefined))]_vars

\* C11 witness: a clip that has a parent was asked to swap with a clip of
\* another parent, at another depth; nothing changed
C11_Witness ==
    /\ call.op = "swap_depths" /\ ~changed /\ result = Ok(Undefined)
    /\ Len(call.args) = 1 /\ call.args[1].type = "Object"
    /\ display_list[call.this].parent # NoObject
    /\ display_list[call.args[1].clip].parent # NoObject
    /\ display_list[call.args[1].clip].parent # display_list[call.this].parent
    /\ display_list[call.args[1].clip].depth # display_list[call.this].depth

\* the cursor and the play state of the clip are as they were
CursorAndPlayStateUnchanged(c) ==
    /\ timeline'[c].current_frame = timeline[c].current_frame
    /\ timeline'[c].playing = timeline[c].playing

\* C12 as claimed: goto with a number that has a fractional part changes
\* neither the cursor nor the play state of the clip, whatever its label
\* table holds.
C12_Original ==
    [][(call'.op = "goto_frame" /\ Len(call'.args) >= 1
            /\ call'.args[1].type = "Number" /\ ~fract_is_zero(call'.args[1]))
        => CursorAndPlayStateUnchanged(call'.this)]_vars

\* C13: goto with an argument that is no number, and whose string is no
\* label of the clip, changes nothing and returns undefined.
C13_GotoUnknownLabel ==
    [][(call'.op = "goto_frame"
            /\ LET arg == get(call'.args, 1)
               IN  /\ arg.type # "Number" /\ ~coercion_fails(arg)
                   /\ coerce_to_string(arg)
                          \notin DOMAIN timeline[call'.this].frame_labels)
        => (UNCHANGED state /\ result' = Ok(Undefined))]_vars

\* C13 witness: a stopped clip on frame 2 that has labels was sent, to be
\* played, to a label it does not have, and stayed as it was
C13_Witness ==
    /\ call.op = "goto_frame" /\ ~call.stop
    /\ call.args = << String("b") >>
    /\ timeline[call.this].frame_labels # NoLabels
    /\ timeline[call.this].current_frame = 2
    /\ ~timeline[call.this].playing
    /\ ~changed /\ result = Ok(Undefined)

\* the 0-based frame of a goto with a number: the number as a wrapping
\* i32, minus one, plus the scene offset, all wrapping
GotoZ ==
    wrapping_add(wrapping_add(f64_to_wrapping_i32(call'.args[1]), -1),
                 call'.scene_offset)

GotoWithFrameNumber ==
    /\ call'.op = "goto_frame" /\ Len(call'.args) >= 1
    /\ call'.args[1].type = "Number" /\ fract_is_zero(call'.args[1])

\* C14 as claimed: goto with an integral number moves the timeline if and
\* only if z >= 0, and then asks the timeline for the frame z + 1 exactly.
C14_Original ==
    [][GotoWithFrameNumber
        => IF GotoZ >= 0
           THEN /\ GotoZ < MaxI32
                /\ timeline'[call'.this].requested = GotoZ + 1
           ELSE UNCHANGED state]_vars

\* the goto being made resolves its target
GotoResolves ==
    /\ call'.op = "goto_frame"
    /\ LET arg == get(call'.args, 1)
       IN  \/ GotoWithFrameNumber /\ GotoZ >= 0
           \/ /\ ~goto_is_frame_number(arg) /\ ~coercion_fails(arg)
              /\ coerce_to_string(arg)
                     \in DOMAIN timeline[call'.this].frame_labels

\* the frame the goto being made asks the timeline for
GotoTarget ==
    IF GotoWithFrameNumber
    THEN saturating_add_1_as_u16(GotoZ)
    ELSE (timeline[call'.this].frame_labels[coerce_to_string(get(call'.args, 1))]
            + call'.scene_offset) % U16

\* what play, stop, next_frame and prev_frame do to the clip, and what
\* these and goto leave alone: the timeline of every other clip
TimelineSteps ==
    /\ call'.op = "play"
        => timeline'[call'.this] = [timeline[call'.this] EXCEPT !.playing = TRUE]
    /\ call'.op = "stop"
        => timeline'[call'.this] = [timeline[call'.this] EXCEPT !.playing = FALSE]
    /\ call'.op = "next_frame"
        => timeline'[call'.this] =
               [timeline[call'.this] EXCEPT !.playing = FALSE,
                                            !.current_frame = @ + 1]
    /\ call'.op = "prev_frame"
        => timeline'[call'.this] =
               [timeline[call'.this] EXCEPT !.playing = FALSE,
                                            !.current_frame = @ - 1]
    /\ call'.op \in {"play", "stop", "next_frame", "prev_frame", "goto_frame"}
        => \A c \in Clips \ {call'.this} : timeline'[c] = timeline[c]

C16_OneDragSession ==
    /\ [](Cardinality(drag_object) <= 1)
    /\ [][/\ call'.op = "start_drag"
             => /\ Cardinality(drag_object') = 1
                /\ \A d \in drag_object' : d.display_object = call'.this
          /\ call'.op = "stop_drag" => drag_object' = {}]_vars

\* C16 witness: stop_drag was called on a clip while another clip was
\* dragged, and no session is left
C16_Witness ==
    /\ call.op = "stop_drag" /\ result = Ok(Undefined)
    /\ call.found # {}
    /\ \A d \in call.found : d.display_object # call.this /\ d.constrained
    /\ drag_object = {}

\* the load being submitted has a url and a method whose coercions succeed
LoadWithGoodArgs ==
    /\ call'.op \in {"load_movie", "load_variables"}
    /\ ~coercion_fails(get(call'.args, 1))
    /\ ~coercion_fails(get(call'.args, 2))

\* C17: a load_movie or load_variables call whose arguments coerce submits
\* exactly one fetch and spawns exactly one process, keyed to the clip
\* (load_movie) or to the script object of the clip (load_variables), that
\* waits for this fetch; it returns undefined with the process still
\* pending, and changes no display object.
C17_LoadSubmitsOnce ==
    [][LoadWithGoodArgs
        => /\ Len(fetches') = Len(fetches) + 1
           /\ SubSeq(fetches', 1, Len(fetches)) = fetches
           /\ Len(futures') = Len(futures) + 1
           /\ SubSeq(futures', 1, Len(futures)) = futures
           /\ futures'[Len(futures')] =
                  [kind |-> IF call'.op = "load_movie" THEN "movie" ELSE "form",
                   target |-> IF call'.op = "load_movie"
                              THEN DisplayObject(call'.this)
                              ELSE Object(call'.this),
                   fetch |-> Len(fetches')]
           /\ result' = Ok(Undefined)
           /\ UNCHANGED << state, drag_object >>]_vars

\* C17 witness: load_variables was called while an earlier load was still
\* pending; two fetches are out and the last process is keyed to the script
\* object of the receiver
C17_Witness ==
    /\ call.op = "load_variables" /\ result = Ok(Undefined) /\ ~changed
    /\ Len(fetches) = 2 /\ Len(futures) = 2
    /\ futures[2] = load_process("form", Object(call.this), 2)
    /\ futures[1].kind = "movie"

\* C18: whenever the continuation of a load runs, in any interleaving with
\* removes and attaches, for a target that was removed or replaced since
\* the submission, no display object changes; nothing cancels a load
\* before that: a remove or an attach leaves every pending process
\* pending, and a load for a clip that is already removed is submitted
\* all the same.
C18_StaleLoadIsNoOp ==
    [][/\ (call'.op = "apply_load" /\ ~in_tree(display_list, call'.this))
           => (UNCHANGED state /\ Len(futures') = Len(futures) - 1)
       /\ call'.op \in {"remove_movie_clip", "attach_movie"}
           => UNCHANGED << fetches, futures >>
       /\ LoadWithGoodArgs => Len(futures') = Len(futures) + 1]_vars

\* C18 witness: the continuation of a movie load ran for a clip that was
\* replaced by an attach after the load was submitted, and changed nothing
C18_Witness ==
    /\ call.op = "apply_load" /\ call.this = 2 /\ ~changed
    /\ Len(display_list) = 3
    /\ display_list[2].parent = NoObject
    /\ display_list[3].parent = Root
    /\ display_list[3].depth = display_list[2].depth
    /\ display_list[2].id # LoadedMovie
    /\ Len(fetches) >= 1 /\ futures = << >>

\* the begin_gradient_fill being made is rejected: its arrays are not of
\* one length, or its fill kind is none it knows
GradientRejected ==
    /\ call'.op = "begin_gradient_fill" /\ Len(call'.args) >= 5
    /\ \A i \in 1..Len(call'.args) : ~coercion_fails(call'.args[i])
    /\ \/ ~same_sized_arrays(call'.args)
       \/ gradient_style(coerce_to_string(call'.args[1]), call'.args) = "invalid"

\* C19 as claimed: a rejected begin_gradient_fill leaves the clip with no
\* fill style, whatever fill style it had, and changes nothing else of
\* its drawing.
C19_Original ==
    [][GradientRejected
        => drawing'[call'.this] =
               [drawing[call'.this] EXCEPT !.fill_style = "none"]]_vars

\* C20: end_fill sets the fill style to none and leaves the line style and
\* the commands as they were; clear resets the fill style, the line style
\* and the commands together; move_to, line_to and curve_to leave both
\* styles as they were and the commands they found as a prefix of the
\* commands they leave, with at most their own command after it.
C20_PathStateLifecycle ==
    [][LET c == call'.this
       IN  /\ call'.op = "end_fill"
               => drawing'[c] = [drawing[c] EXCEPT !.fill_style = "none"]
           /\ call'.op = "clear"
               => drawing'[c] = NewDrawing
           /\ call'.op \in {"move_to", "line_to", "curve_to"}
               => /\ drawing'[c].fill_style = drawing[c].fill_style
                  /\ drawing'[c].line_style = drawing[c].line_style
                  /\ \/ drawing'[c].commands = drawing[c].commands
                     \/ drawing'[c].commands =
                            Append(drawing[c].commands,
                                   CASE call'.op = "move_to" -> "MoveTo"
                                     [] call'.op = "line_to" -> "LineTo"
                                     [] OTHER -> "CurveTo")
           /\ call'.op \in {"end_fill", "clear", "move_to", "line_to", "curve_to"}
               => \A d \in Clips \ {c} : drawing'[d] = drawing[d]]_vars

\* C20 witness: end_fill was called on a clip that had a fill style, a
\* line style and two commands; the fill is gone, the rest is there
C20_Witness ==
    /\ call.op = "end_fill" /\ changed
    /\ drawing[call.this] =
           [fill_style |-> "none", line_style |-> "line",
            commands |-> << "MoveTo", "CurveTo" >>]

\* the call being made is an attach, a create_empty or a duplicate with
\* fewer arguments than the three, two and two it takes
TooFewArguments ==
    \/ call'.op = "attach_movie" /\ Len(call'.args) < 3
    \/ call'.op = "create_empty_movie_clip" /\ Len(call'.args) < 2
    \/ call'.op = "duplicate_movie_clip" /\ Len(call'.args) < 2

\* C21 as claimed: attach, create_empty and duplicate called with fewer
\* than three, two and two arguments, no argument included, complete
\* normally, return undefined and leave the tree as it was.
C21_Original ==
    [][TooFewArguments => (UNCHANGED state /\ result' = Ok(Undefined))]_vars

\* a coercion of an argument fails inside the drawing call being made:
\* the argument throws when it is coerced, and the call comes to coerce it
CoercionFailsInside ==
    LET args == call'.args
        fails(positions) ==
            \E i \in 1..Len(args) : i \in positions /\ coercion_fails(args[i])
    IN  \/ /\ call'.op = "line_style"
           /\ \/ fails({1, 2, 3, 5, 6, 7})
              \/ line_style_fails(args)
        \/ /\ call'.op = "begin_gradient_fill" /\ Len(args) >= 5
           /\ \/ fails({1})
              \/ same_sized_arrays(args) /\ fails({5, 6, 7})
        \/ call'.op \in {"move_to", "line_to"} /\ Len(args) >= 2 /\ fails({1, 2})
        \/ call'.op = "curve_to" /\ Len(args) >= 4 /\ fails({1, 2, 3, 4})

\* C22 as claimed: whenever a coercion of an argument fails inside an
\* operation, the strings of the scale mode, the cap style and the join
\* style of line_style and of the spread and the interpolation of
\* begin_gradient_fill included, the operation returns the error and
\* leaves every clip as it was.
C22_Original ==
    [][CoercionFailsInside => (result' = Err /\ UNCHANGED state)]_vars

\* the script depth of a biased depth: the bias taken off, wrapping
to_script(depth) == wrapping_sub(depth, AVM_DEPTH_BIAS)

\* the call made last is an attach, a create_empty or a duplicate of the
\* biased kind, with a script depth in [0, AVM_MAX_DEPTH], and it
\* returned the new clip
CreatedAtScriptDepth ==
    /\ call.op \in {"attach_movie", "create_empty_movie_clip",
                    "duplicate_movie_clip"}
    /\ call.depth_bias = AVM_DEPTH_BIAS
    /\ WellFormedCall(DepthArg)
    /\ call.args[DepthArg].wraps = 0
    /\ NumberArg(DepthArg) >= 0 /\ NumberArg(DepthArg) <= AVM_MAX_DEPTH
    /\ ReturnedObject

\* C23: for every script depth d in [0, AVM_MAX_DEPTH], taking the bias
\* off the biased depth gives d again: the clip a call made at script
\* depth d is at a depth whose script depth is d.
C23_DepthRoundTrip ==
    CreatedAtScriptDepth
    => to_script(display_list[result.value.clip].depth) = NumberArg(DepthArg)

\* C23 witness: create_empty made a clip at the script depth
\* AVM_MAX_DEPTH, the last of the range
C23_Witness ==
    /\ CreatedAtScriptDepth
    /\ NumberArg(DepthArg) = AVM_MAX_DEPTH
    /\ display_list[result.value.clip].depth = AVM_MAX_DEPTH + AVM_DEPTH_BIAS

\* the call made last is an attach whose export name the library does not
\* have, or a duplicate of a clip whose character id the library does not
\* have
NothingToInstantiate ==
    \/ /\ call.op = "attach_movie" /\ WellFormedCall(3)
       /\ instantiate_by_export_name(coerce_to_string(call.args[1])) = 0
    \/ /\ call.op = "duplicate_movie_clip" /\ WellFormedCall(2)
       /\ instantiate_by_id(display_list[call.this].id) = 0

\* C24: an attach whose export name does not resolve and a duplicate of a
\* clip whose character id does not resolve return undefined and leave
\* every clip as it was; they raise no error and do not fault.
C24_NothingToInstantiate ==
    NothingToInstantiate => (~changed /\ result = Ok(Undefined))

\* C24 witness: a duplicate of a child made by create_empty, which has no
\* character in the library, at a depth in the range, changed nothing
C24_Witness ==
    /\ call.op = "duplicate_movie_clip" /\ WellFormedCall(2)
    /\ display_list[call.this].id = 0
    /\ display_list[call.this].parent # NoObject
    /\ ~depth_out_of_range(wrapping_add(coerce_to_i32(call.args[2]), call.depth_bias))
    /\ ~changed /\ result = Ok(Undefined)

\* C25 as claimed: swap_depths changes the tree only if its target depth
\* is resolved and differs from the depth of the receiver, and both the
\* target depth and the depth the receiver is at lie in
\* [0, AVM_MAX_DEPTH]; with either outside the range the call changes
\* nothing.
C25_Original ==
    [][(call'.op = "swap_depths" /\ display_list' # display_list)
        => LET A == call'.this
               depth == swap_target_depth(display_list, A,
                            display_list[A].parent, get(call'.args, 1))
           IN  /\ depth.some
               /\ depth.depth # display_list[A].depth
               /\ DepthInRange(depth.depth)
               /\ DepthInRange(display_list[A].depth)]_vars

\* C26 as claimed: with the scene offset 0, goto with an integral number
\* n <= 0 changes neither the cursor nor the play state, and goto with an
\* integral number greater than the total frame count leaves the cursor
\* on the last frame.
C26_Original ==
    [][(GotoWithFrameNumber /\ call'.scene_offset = 0)
        => LET n == call'.args[1]
               c == call'.this
           IN  /\ (n.wraps < 0 \/ (n.wraps = 0 /\ n.n <= 0))
                    => CursorAndPlayStateUnchanged(c)
               /\ (n.wraps > 0 \/ (n.wraps = 0 /\ n.n > timeline[c].total_frames))
                    => timeline'[c].current_frame = timeline[c].total_frames]_vars

\* C27 as claimed: from version 7 on, get_next_highest_depth returns a
\* script depth that is at least 0 and greater than the script depth of
\* every child of the receiver, and 0 for a receiver that has no child or
\* only children below AVM_DEPTH_BIAS; before version 7 it returns
\* undefined; it never changes the tree.
C27_Original ==
    call.op = "get_next_highest_depth"
    => /\ ~changed
       /\ IF call.swf_version >= 7
          THEN LET kids == children(display_list, call.this)
               IN  /\ result.kind = "Ok" /\ result.value.type = "Number"
                   /\ result.value.wraps = 0 /\ result.value.n >= 0
                   /\ \A c \in kids :
                          result.value.n > to_script(display_list[c].depth)
                   /\ (\A c \in kids : display_list[c].depth < AVM_DEPTH_BIAS)
                          => result.value.n = 0
          ELSE result = Ok(Undefined)

\* errors of every variant, with several causes and thrown values
Errors ==
    {PrototypeRecursionLimit}
    \cup {InvalidSwf(cause) : cause \in {"IoError", "ParseError"}}
    \cup {ThrownValue(v) : v \in {Undefined, Number(0, 0), String("a"), Object(Root)}}

\* C28: is_halting is true of the prototype recursion limit and of an
\* invalid SWF and false of a thrown value, whatever was thrown; the error
\* a call returned from a coercion that threw is a thrown value and does
\* not halt.
C28_IsHalting ==
    /\ \A e \in Errors :
           is_halting(e) <=> e.error \in {"PrototypeRecursionLimit", "InvalidSwf"}
    /\ result.kind = "Err" => ~is_halting(result.error)

\* C28 witness: a call returned the error of a coercion that threw
C28_Witness ==
    /\ result.kind = "Err"
    /\ result.error.error = "ThrownValue"
    /\ \E i \in 1..Len(call.args) : coercion_fails(call.args[i])

C30_DragWrittenByDragCallsOnly ==
    [][call'.op \notin {"start_drag", "stop_drag"}
        => drag_object' = drag_object]_vars

\* C30 witness: the clip that is dragged was removed from its parent, and
\* the session still names it
C30_Witness ==
    /\ call.op = "remove_movie_clip" /\ changed
    /\ display_list[call.this].parent = NoObject
    /\ \E d \in drag_object : d.display_object = call.this

====
